---------------------------- MODULE Spec2Model ----------------------------
(***************************************************************************)
(* Model of the Wikipedia height inspector                                 *)
(* (src/src/services/WikipediaInspector.ts, final class at lines 254-489)  *)
(* and of the form that starts it (src/src/main/DetectorInspector.tsx).    *)
(*                                                                         *)
(* A text is a sequence of one-character strings.  A table is the sequence *)
(* of its <tr> rows, a row the sequence of the texts of its <td> cells (a  *)
(* header row made of <th> cells has no <td> and is the empty sequence).   *)
(* A number is an exact decimal counted in units of 1/Scale metre, so that *)
(* 1.85 is 18500 and 0.3048 is 3048; floating-point rounding is not        *)
(* modelled.  The range of a double is scaled down: a decimal literal of   *)
(* more than MaxFiniteDigits significant integer digits is Infinity, as    *)
(* one of more than 309 digits is for parseFloat.                          *)
(***************************************************************************)
EXTENDS Integers, Sequences, FiniteSets, TLC

VARIABLES
    response,   \* getTables: what the fetch of the page came back with
    pc,         \* position of the generateChart call
    tables,     \* getColumns: const tables
    ti,         \* getColumns: index of the table the forEach is at (0-based)
    column,     \* getColumns: const column, the columns collected so far
    i,          \* extractColumnData: loop index (0-based row index)
    values,     \* extractColumnData: columns[0].values
    error,      \* message of the Error in flight or thrown to the caller
    log,        \* history: one entry per row visited by the row loop
    url,        \* DetectorInspector: state url
    uiError,    \* DetectorInspector: state error
    loading,    \* DetectorInspector: state loading
    scans       \* DetectorInspector: the onScan calls made so far

chartVars == <<response, pc, tables, ti, column, i, values, error, log>>

uiVars == <<url, uiError, loading, scans>>

vars == <<response, pc, tables, ti, column, i, values, error, log,
          url, uiError, loading, scans>>

(***************************************************************************)
(* Bounds of the model.                                                    *)
(***************************************************************************)
MaxTables == 2
MaxTotalRows == 3
MaxDigits == 2
MaxScans == 3

(***************************************************************************)
(* Numbers.                                                                *)
(***************************************************************************)
Scale == 10 * 10 * 10 * 10

\* The value parseFloat gives when the text starts with no number.
NaN == 0 - 1

\* The value parseFloat gives when the number is beyond Number.MAX_VALUE; it
\* is greater than every finite number of the model.
Infinity == 2147483647

\* The most integer digits a finite number has: 309 for a double, scaled
\* down to what the numbers of the model can hold.
MaxFiniteDigits == 5

Digit == {"0", "1", "2", "3", "4", "5", "6", "7", "8", "9"}

\* \s of the regular expressions, and the characters trim() strips: the
\* blank stands for all of them.
WhiteSpace == {" "}

DigitVal(c) ==
    CASE c = "0" -> 0 [] c = "1" -> 1 [] c = "2" -> 2 [] c = "3" -> 3
      [] c = "4" -> 4 [] c = "5" -> 5 [] c = "6" -> 6 [] c = "7" -> 7
      [] c = "8" -> 8 [] c = "9" -> 9

(***************************************************************************)
(* Texts.                                                                  *)
(***************************************************************************)
\* The character at position p (1-based), "" past either end.
At(str, p) == IF p \in 1..Len(str) THEN str[p] ELSE ""

\* Length of the longest run of characters of S that starts at position s:
\* what a greedy \d+, \d* or \s* consumes there.
RunLen(str, s, S) ==
    IF s > Len(str) THEN 0
    ELSE CHOOSE k \in 0..(Len(str) + 1 - s) :
            /\ \A j \in 0..(k - 1) : str[s + j] \in S
            /\ At(str, s + k) \notin S

\* String.prototype.trim
Trim(str) ==
    LET keep == {p \in 1..Len(str) : str[p] \notin WhiteSpace}
    IN  IF keep = {} THEN <<>>
        ELSE SubSeq(str, CHOOSE p \in keep : \A q \in keep : p <= q,
                         CHOOSE p \in keep : \A q \in keep : p >= q)

\* Mutant of Replace: the separator is left as it is.
Replace_Nothing(str, from, to) == str

\* String.prototype.replace(from, to) with a string pattern: the first
\* occurrence only.
Replace(str, from, to) ==
    LET hits == {p \in 1..Len(str) : str[p] = from}
    IN  IF hits = {} THEN str
        ELSE LET h == CHOOSE p \in hits : \A q \in hits : p <= q
             IN  [p \in 1..Len(str) |-> IF p = h THEN to ELSE str[p]]

RECURSIVE DigitsToNat(_)
\* The natural number a run of digits writes.
DigitsToNat(ds) ==
    IF ds = <<>> THEN 0
    ELSE 10 * DigitsToNat(SubSeq(ds, 1, Len(ds) - 1)) + DigitVal(ds[Len(ds)])

RECURSIVE FracToUnits(_, _)
\* The fraction digits ds, of weight w for the first one, in units of 1/Scale.
FracToUnits(ds, w) ==
    IF ds = <<>> \/ w = 0 THEN 0
    ELSE DigitVal(ds[1]) * w + FracToUnits(Tail(ds), w \div 10)

\* parseFloat: the longest prefix that is a decimal literal (digits, then
\* optionally "." and digits), NaN when there is none, Infinity when the
\* integer part has too many digits after its leading zeros.  No text the
\* code hands to parseFloat has a sign, an exponent or leading white space.
ParseFloat(str) ==
    LET k == RunLen(str, 1, Digit)
        p == IF At(str, k + 1) = "." THEN 1 ELSE 0
        j == IF p = 1 THEN RunLen(str, k + 2, Digit) ELSE 0
    IN  IF k = 0 /\ j = 0 THEN NaN
        ELSE IF k - RunLen(str, 1, {"0"}) > MaxFiniteDigits THEN Infinity
        ELSE DigitsToNat(SubSeq(str, 1, k)) * Scale
               + FracToUnits(SubSeq(str, k + 2, k + 1 + j), Scale \div 10)


(***************************************************************************)
(* The two regular expressions.  A match is the record JavaScript's        *)
(* String.prototype.match returns: found is FALSE for null; g1 and g2 are  *)
(* the captured groups, and has2 is FALSE when group 2 is undefined.       *)
(* Every quantifier of the two patterns is greedy and is followed by a     *)
(* character outside its own class, so backtracking can never shorten a    *)
(* run: at a given start the match, if any, takes the longest runs.  The   *)
(* patterns are not anchored: the match is the one at the leftmost start.  *)
(***************************************************************************)
NoMatch == [found |-> FALSE, g1 |-> <<>>, g2 |-> <<>>, has2 |-> FALSE]

\* /(\d+[.,]?\d*)\s*m/ tried at start s: the end of group 1, 0 for no match.
MetresAt(str, s) ==
    LET k == RunLen(str, s, Digit)
        p == IF At(str, s + k) \in {".", ","} THEN 1 ELSE 0
        j == IF p = 1 THEN RunLen(str, s + k + 1, Digit) ELSE 0
        w == RunLen(str, s + k + p + j, WhiteSpace)
    IN  IF k >= 1 /\ At(str, s + k + p + j + w) = "m"
        THEN s + k + p + j - 1 ELSE 0

\* value.match(METRES_REGEX)
METRES_REGEX(str) ==
    LET starts == {s \in 1..Len(str) : MetresAt(str, s) # 0}
    IN  IF starts = {} THEN NoMatch
        ELSE LET s == CHOOSE a \in starts : \A b \in starts : a <= b
             IN  [found |-> TRUE, g1 |-> SubSeq(str, s, MetresAt(str, s)),
                  g2 |-> <<>>, has2 |-> FALSE]

\* /(\d+)\s*ft\s*(\d+)?\s*in/ tried at start s: the match there, or NoMatch.
FeetAt(str, s) ==
    LET k  == RunLen(str, s, Digit)
        w1 == RunLen(str, s + k, WhiteSpace)
        f  == s + k + w1                    \* where "ft" has to be
        w2 == RunLen(str, f + 2, WhiteSpace)
        d  == f + 2 + w2                    \* where the inches digits may be
        k2 == RunLen(str, d, Digit)
        w3 == RunLen(str, d + k2, WhiteSpace)
        n  == d + k2 + w3                   \* where "in" has to be
    IN  IF /\ k >= 1
           /\ At(str, f) = "f" /\ At(str, f + 1) = "t"
           /\ At(str, n) = "i" /\ At(str, n + 1) = "n"
        THEN [found |-> TRUE, g1 |-> SubSeq(str, s, s + k - 1),
              g2 |-> SubSeq(str, d, d + k2 - 1), has2 |-> k2 >= 1]
        ELSE NoMatch

\* value.match(FEET_REGEX)
FEET_REGEX(str) ==
    LET starts == {s \in 1..Len(str) : FeetAt(str, s).found}
    IN  IF starts = {} THEN NoMatch
        ELSE FeetAt(str, CHOOSE a \in starts : \A b \in starts : a <= b)

\* feet * 0.3048 + inches * 0.0254, on numbers in units of 1/Scale; a
\* product or a sum with Infinity is Infinity.
TimesUnits(x, u) ==
    IF x = Infinity THEN Infinity
    ELSE (x \div Scale) * u + ((x % Scale) * u) \div Scale

Plus(x, y) == IF x = Infinity \/ y = Infinity THEN Infinity ELSE x + y

\* Mutant of ToMeters: the two factors are exchanged.
ToMeters_Swapped(feet, inches) ==
    Plus(TimesUnits(feet, 254), TimesUnits(inches, 3048))

ToMeters(feet, inches) ==
    Plus(TimesUnits(feet, 3048), TimesUnits(inches, 254))

(***************************************************************************)
(* The body of the row loop of extractColumnData for a row whose <td>      *)
(* texts are cells: which cell it reads (0 for none), which regular        *)
(* expressions it runs, and the values it pushes to columns[0].values.     *)
(***************************************************************************)
MetresBranch(meterValue) ==
    LET numValue == ParseFloat(Replace(meterValue.g1, ",", "."))
    IN  IF numValue # NaN THEN <<numValue>> ELSE <<>>

FeetBranch(feetValue) ==
    IF feetValue.found
    THEN LET feet   == ParseFloat(feetValue.g1)
             inches == IF feetValue.has2 THEN ParseFloat(feetValue.g2) ELSE 0
         IN  <<ToMeters(feet, inches)>>
    ELSE <<>>

\* Mutant of RowBody: the imperial pattern is tried first.
RowBody_FeetFirst(cells) ==
    IF Len(cells) > 0
    THEN LET value     == Trim(cells[1])
             feetValue == FEET_REGEX(value)
         IN  IF feetValue.found
             THEN [cell |-> 1, regexes |-> {"FEET_REGEX"},
                   pushed |-> FeetBranch(feetValue)]
             ELSE [cell |-> 1, regexes |-> {"METRES_REGEX", "FEET_REGEX"},
                   pushed |-> IF METRES_REGEX(value).found
                              THEN MetresBranch(METRES_REGEX(value))
                              ELSE <<>>]
    ELSE [cell |-> 0, regexes |-> {}, pushed |-> <<>>]

RowBody(cells) ==
    IF Len(cells) > 0
    THEN LET value      == Trim(cells[1])
             meterValue == METRES_REGEX(value)
         IN  IF meterValue.found
             THEN [cell |-> 1, regexes |-> {"METRES_REGEX"},
                   pushed |-> MetresBranch(meterValue)]
             ELSE [cell |-> 1, regexes |-> {"METRES_REGEX", "FEET_REGEX"},
                   pushed |-> FeetBranch(FEET_REGEX(value))]
    ELSE [cell |-> 0, regexes |-> {}, pushed |-> <<>>]


(***************************************************************************)
(* The documents the fetch may answer with: every sequence of at most      *)
(* MaxTables tables with at most MaxTotalRows rows in all, the rows taken  *)
(* from RowPool; every pair of tables of two such rows each; the three     *)
(* end-to-end examples; and, for every text of CellTexts, a table of a     *)
(* header row and one data row holding that text, and for every decimal a  *)
(* table holding it written with "." and with ",".                         *)
(***************************************************************************)
Header   == <<"H", "e", "a", "d", "e", "r">>
T_1_85_m == <<"1", ".", "8", "5", " ", "m">>
T_n_a    == <<"n", "/", "a">>
T_6ft1in == <<"6", " ", "f", "t", " ", "1", " ", "i", "n">>
T_5ft    == <<"5", " ", "f", "t">>
T_2_m    == <<"2", " ", "m">>
T_dash   == <<"-">>

RowPool == { <<>>, <<T_1_85_m>>, <<T_n_a, T_2_m>>, <<T_6ft1in>> }

RECURSIVE SeqsOf(_, _)
\* The sequences of exactly n elements of S.
SeqsOf(S, n) ==
    IF n = 0 THEN {<<>>}
    ELSE {<<x>> \o r : x \in S, r \in SeqsOf(S, n - 1)}

RECURSIVE DocsOf(_, _)
\* The sequences of t tables with at most b rows in all.
DocsOf(t, b) ==
    IF t = 0 THEN {<<>>}
    ELSE UNION {{<<tab>> \o rest : tab \in SeqsOf(RowPool, n),
                                   rest \in DocsOf(t - 1, b - n)} : n \in 0..b}

PoolDocs == UNION {DocsOf(t, MaxTotalRows) : t \in 1..MaxTables}

TwoByTwoDocs == {<<a, b>> : a \in SeqsOf(RowPool, 2), b \in SeqsOf(RowPool, 2)}

Example1 == << << <<Header>>, <<T_1_85_m>>, <<T_n_a>>, <<T_6ft1in>> >> >>
Example2 == << << <<Header>>, <<T_dash>> >> >>
Example3 == << << <<Header>>, <<T_n_a>> >>, << <<Header>>, <<T_5ft>> >> >>

ExampleDocs == {Example1, Example2, Example3}

GenDigits == {"0", "5"}

\* The runs of 1..MaxDigits digits.
DigitRuns == UNION {SeqsOf(GenDigits, n) : n \in 1..MaxDigits}

Blank == {<<>>, <<" ">>}

\* "<a>.<b> m" and "<a>,<b> m", "<a> m", with or without the blank.
MetricText(a, sep, b, w) == a \o sep \o b \o w \o <<"m">>

MetricTexts ==
    {MetricText(a, sep, b, w) : a \in DigitRuns, sep \in {<<".">>, <<",">>},
                                b \in DigitRuns \cup {<<>>}, w \in Blank}
    \cup {MetricText(a, <<>>, <<>>, w) : a \in DigitRuns, w \in Blank}

\* "<f> ft <inch> in", "<f> ft in" and "<f> ft", with or without the blanks.
ImperialText(f, inch, mark, w) ==
    f \o w \o <<"f", "t">> \o (IF inch = <<>> THEN <<>> ELSE w \o inch)
      \o (IF mark = <<>> THEN <<>> ELSE w \o mark)

ImperialTexts ==
    {ImperialText(f, inch, mark, w) :
        f \in DigitRuns, inch \in DigitRuns \cup {<<>>},
        mark \in {<<>>, <<"i", "n">>}, w \in Blank}

\* Texts holding a measurement of each kind, in either order, and texts
\* with something around the measurement.
MixedTexts ==
    LET imp == {T_6ft1in, ImperialText(<<"5">>, <<>>, <<"i", "n">>, <<" ">>)}
        met == {T_2_m, T_1_85_m, MetricText(<<"1">>, <<",">>, <<"5">>, <<>>)}
    IN  {x \o <<" ">> \o y : x \in imp, y \in met}
          \cup {y \o <<" ">> \o x : x \in imp, y \in met}
          \cup {<<" ">> \o x \o <<" ">> : x \in imp \cup met}
          \cup {<<"x">> \o x \o <<"m">> : x \in imp \cup met}
          \cup {<<"1", ".">> \o y : y \in met}
          \cup {<<>>, <<" ">>, <<"m">>, <<"f", "t", " ", "i", "n">>,
                <<"5", " ", "m", "i", "n">>, <<".", "5", " ", "m">>}

\* A run of digits too long for a finite number, and texts that hold it;
\* texts with a minus sign in front of the measurement.
LongRun == [p \in 1..(MaxFiniteDigits + 1) |-> "5"]

LongTexts ==
    {LongRun \o <<" ", "m">>,
     LongRun \o <<" ", "f", "t", " ", "5", " ", "i", "n">>,
     <<"5", " ", "f", "t", " ">> \o LongRun \o <<" ", "i", "n">>,
     T_6ft1in \o <<" ">> \o LongRun \o <<" ", "m">>}

SignedTexts == {<<"-">> \o T_1_85_m, <<"-">> \o T_6ft1in, <<"-">> \o T_2_m}

CellTexts ==
    MetricTexts \cup ImperialTexts \cup MixedTexts \cup LongTexts \cup SignedTexts

CellDocs == {<< << <<Header>>, <<c>> >> >> : c \in CellTexts}

PairDocs ==
    {<< << <<Header>>, <<MetricText(a, <<".">>, b, <<" ">>)>>,
                       <<MetricText(a, <<",">>, b, <<" ">>)>> >> >> :
        a \in DigitRuns, b \in DigitRuns}

Docs == PoolDocs \cup TwoByTwoDocs \cup ExampleDocs \cup CellDocs \cup PairDocs

\* What the fetch can come back with: a rejected fetch or response.json(),
\* a JSON answer without parse.text, or an answer whose HTML holds the
\* table.wikitable elements of doc (possibly none).
Pending == [status |-> "pending", text |-> FALSE, doc |-> <<>>]

Responses ==
    {[status |-> "rejected", text |-> FALSE, doc |-> <<>>],
     [status |-> "json", text |-> FALSE, doc |-> <<>>]}
      \cup {[status |-> "json", text |-> TRUE, doc |-> d] : d \in Docs \cup {<<>>}}

(***************************************************************************)
(* Error messages are sequences of parts: wrapping an error puts the       *)
(* prefix of the new message in front of the message of the cause.         *)
(***************************************************************************)
\* Message of the Error a rejected fetch or response.json() carries; it
\* stands for every Error thrown in getTables before the content test.
FetchRejected == "Failed to fetch"
NoContent     == "Failed to fetch Wikipedia Content"
NoTable       == "No table found"
NoColumns     == "No numeric columns found in the tables"
NoContext     == "Could not get canvas context"

\* Mutant of GetTablesError: the tables.length === 0 test is missing.
GetTablesError_NoEmptyCheck(resp) ==
    IF resp.status = "rejected" THEN FetchRejected
    ELSE IF ~resp.text THEN NoContent
    ELSE ""

\* The message of the error the try block of getTables throws on resp, ""
\* when it throws none.
GetTablesError(resp) ==
    IF resp.status = "rejected" THEN FetchRejected
    ELSE IF ~resp.text THEN NoContent
    ELSE IF Len(resp.doc) = 0 THEN NoTable
    ELSE ""

(***************************************************************************)
(* The form.  A URL typed in the input is its text, whether new URL(text)  *)
(* accepts it, and the hostname it then has.                               *)
(***************************************************************************)
WikipediaOrg == <<"w", "i", "k", "i", "p", "e", "d", "i", "a", ".", "o", "r", "g">>

EmptyUrl == [text |-> "", parses |-> FALSE, hostname |-> <<>>]

Urls ==
    {EmptyUrl,
     [text |-> "wikipedia", parses |-> FALSE, hostname |-> <<>>],
     [text |-> "https://en.wikipedia.org/wiki/A", parses |-> TRUE,
      hostname |-> <<"e", "n", ".">> \o WikipediaOrg],
     [text |-> "https://xwikipedia.org/wiki/A", parses |-> TRUE,
      hostname |-> <<"x">> \o WikipediaOrg],
     [text |-> "https://wiki.org/wiki/A", parses |-> TRUE,
      hostname |-> <<"w", "i", "k", "i", ".", "o", "r", "g">>]}

\* String.prototype.endsWith
EndsWith(str, suffix) ==
    /\ Len(str) >= Len(suffix)
    /\ SubSeq(str, Len(str) - Len(suffix) + 1, Len(str)) = suffix

\* validateUrl: the message it sets with setError, <<>> for "".
ValidateUrl(u) ==
    IF ~u.parses THEN <<"Please enter a valid URL">>
    ELSE IF EndsWith(u.hostname, WikipediaOrg) THEN <<>>
    ELSE <<"Please enter a valid Wikipedia URL">>

\* The messages generateChart rejects with.
ChartErrors ==
    {<<"Failed to generate chart: ", "Failed to get tables: ", cause>> :
        cause \in {FetchRejected, NoContent, NoTable}}
      \cup {<<"Failed to generate chart: ", NoColumns>>,
            <<"Failed to generate chart: ", NoContext>>}

\* disabled={!!error || !url} of the Scan button
ScanDisabled == uiError # <<>> \/ url.text = ""

Init ==
    /\ response = Pending
    /\ pc = "getTables"
    /\ tables = <<>>
    /\ ti = 0
    /\ column = <<>>
    /\ i = 0
    /\ values = <<>>
    /\ error = <<>>
    /\ log = <<>>
    /\ url = EmptyUrl
    /\ uiError = <<>>
    /\ loading = FALSE
    /\ scans = <<>>

\* getTables throws: the fetch or the JSON decoding rejects, the answer has
\* no parse.text, or the document has no table.wikitable; its catch wraps
\* the message, and getColumns lets the error through.
GetTablesThrow ==
    /\ pc = "getTables"
    /\ \E resp \in Responses :
          /\ GetTablesError(resp) # ""
          /\ response' = resp
          /\ error' = <<"Failed to get tables: ", GetTablesError(resp)>>
    /\ pc' = "catch"
    /\ UNCHANGED <<tables, ti, column, i, values, log>>
    /\ UNCHANGED uiVars

\* getTables returns the tables of the document; getColumns starts its
\* forEach with an empty column array.
GetTablesReturn ==
    /\ pc = "getTables"
    /\ \E resp \in Responses :
          /\ GetTablesError(resp) = ""
          /\ response' = resp
          /\ tables' = resp.doc
    /\ ti' = 0
    /\ column' = <<>>
    /\ pc' = "forEach"
    /\ UNCHANGED <<i, values, error, log>>
    /\ UNCHANGED uiVars

\* Mutant of ExtractBegin: the row loop starts at the header row.
ExtractBegin_FromRow0 ==
    /\ pc = "forEach"
    /\ ti < Len(tables)
    /\ values' = <<>>
    /\ i' = 0
    /\ pc' = "rows"
    /\ UNCHANGED <<response, tables, ti, column, error, log>>
    /\ UNCHANGED uiVars

\* extractColumnData is called on the next table: columns[0] is a "Height"
\* column without values, and the row loop starts at index 1.
ExtractBegin ==
    /\ pc = "forEach"
    /\ ti < Len(tables)
    /\ values' = <<>>
    /\ i' = 1
    /\ pc' = "rows"
    /\ UNCHANGED <<response, tables, ti, column, error, log>>
    /\ UNCHANGED uiVars

\* Mutant of ScanRow: the value is put in front of columns[0].values.
ScanRow_Unshift ==
    /\ pc = "rows"
    /\ i < Len(tables[ti + 1])
    /\ LET out == RowBody(tables[ti + 1][i + 1])
       IN  /\ values' = out.pushed \o values
           /\ log' = Append(log, [t |-> ti, i |-> i, cell |-> out.cell,
                                  regexes |-> out.regexes,
                                  pushed |-> out.pushed])
    /\ i' = i + 1
    /\ UNCHANGED <<response, pc, tables, ti, column, error>>
    /\ UNCHANGED uiVars

\* One turn of the row loop.
ScanRow ==
    /\ pc = "rows"
    /\ i < Len(tables[ti + 1])
    /\ LET out == RowBody(tables[ti + 1][i + 1])
       IN  /\ values' = values \o out.pushed
           /\ log' = Append(log, [t |-> ti, i |-> i, cell |-> out.cell,
                                  regexes |-> out.regexes,
                                  pushed |-> out.pushed])
    /\ i' = i + 1
    /\ UNCHANGED <<response, pc, tables, ti, column, error>>
    /\ UNCHANGED uiVars

\* Mutant of ExtractResult: the column is returned even without values.
ExtractResult_Always(vals) == <<[header |-> "Height", values |-> vals]>>

\* What extractColumnData returns for the values it collected.
ExtractResult(vals) ==
    IF Len(vals) > 0 THEN <<[header |-> "Height", values |-> vals]>> ELSE <<>>

\* Mutant of ExtractReturn: the column is put in front of column.
ExtractReturn_Unshift ==
    /\ pc = "rows"
    /\ i >= Len(tables[ti + 1])
    /\ column' = ExtractResult(values) \o column
    /\ ti' = ti + 1
    /\ pc' = "forEach"
    /\ UNCHANGED <<response, tables, i, values, error, log>>
    /\ UNCHANGED uiVars

\* The row loop ends; extractColumnData returns and the forEach callback
\* pushes what it returned to column.
ExtractReturn ==
    /\ pc = "rows"
    /\ i >= Len(tables[ti + 1])
    /\ column' = column \o ExtractResult(values)
    /\ ti' = ti + 1
    /\ pc' = "forEach"
    /\ UNCHANGED <<response, tables, i, values, error, log>>
    /\ UNCHANGED uiVars

\* The forEach is over: getColumns returns column to generateChart.
GetColumnsReturn ==
    /\ pc = "forEach"
    /\ ti >= Len(tables)
    /\ pc' = "columns"
    /\ UNCHANGED <<response, tables, ti, column, i, values, error, log>>
    /\ UNCHANGED uiVars

\* generateChart: columns.length === 0
NoColumnsThrow ==
    /\ pc = "columns"
    /\ Len(column) = 0
    /\ error' = <<NoColumns>>
    /\ pc' = "catch"
    /\ UNCHANGED <<response, tables, ti, column, i, values, log>>
    /\ UNCHANGED uiVars

\* Mutant of SaveChartCall: columns.length is not looked at.
SaveChartCall_Unchecked ==
    /\ pc = "columns"
    /\ pc' = "saveChart"
    /\ UNCHANGED <<response, tables, ti, column, i, values, error, log>>
    /\ UNCHANGED uiVars

\* generateChart calls saveChart.
SaveChartCall ==
    /\ pc = "columns"
    /\ Len(column) # 0
    /\ pc' = "saveChart"
    /\ UNCHANGED <<response, tables, ti, column, i, values, error, log>>
    /\ UNCHANGED uiVars

\* saveChart: the canvas gives no 2d context.
SaveChartThrow ==
    /\ pc = "saveChart"
    /\ error' = <<NoContext>>
    /\ pc' = "catch"
    /\ UNCHANGED <<response, tables, ti, column, i, values, log>>
    /\ UNCHANGED uiVars

\* saveChart draws the chart and triggers the download; generateChart
\* resolves.
SaveChartReturn ==
    /\ pc = "saveChart"
    /\ pc' = "done"
    /\ UNCHANGED <<response, tables, ti, column, i, values, error, log>>
    /\ UNCHANGED uiVars

\* The catch of generateChart: the promise rejects with the wrapped message.
GenerateChartCatch ==
    /\ pc = "catch"
    /\ error' = <<"Failed to generate chart: ">> \o error
    /\ pc' = "failed"
    /\ UNCHANGED <<response, tables, ti, column, i, values, log>>
    /\ UNCHANGED uiVars

Next ==
    \/ GetTablesThrow
    \/ GetTablesReturn
    \/ ExtractBegin
    \/ ScanRow
    \/ ExtractReturn
    \/ GetColumnsReturn
    \/ NoColumnsThrow
    \/ SaveChartCall
    \/ SaveChartThrow
    \/ SaveChartReturn
    \/ GenerateChartCatch

Spec == Init /\ [][Next]_vars

(***************************************************************************)
(* The form: the user edits the URL and clicks Scan; every click calls     *)
(* onScan, which runs up to its await; the generateChart it awaits settles *)
(* later, in any order, and the rest of that onScan call then runs.        *)
(***************************************************************************)
\* onChangeURL
ChangeURL ==
    /\ \E u \in Urls :
          /\ url' = u
          /\ uiError' = IF u.text # "" THEN ValidateUrl(u) ELSE <<>>
    /\ UNCHANGED <<loading, scans>>
    /\ UNCHANGED chartVars

\* A click on the Scan button: onScan up to await inspector.generateChart.
ScanClick ==
    /\ ~ScanDisabled
    /\ Len(scans) < MaxScans
    /\ loading' = TRUE
    /\ uiError' = <<>>
    /\ scans' = Append(scans, [url |-> url.text, state |-> "pending"])
    /\ UNCHANGED url
    /\ UNCHANGED chartVars

\* generateChart resolves: the finally block of that onScan call.
ScanResolve ==
    /\ \E k \in 1..Len(scans) :
          /\ scans[k].state = "pending"
          /\ scans' = [scans EXCEPT ![k].state = "resolved"]
    /\ loading' = FALSE
    /\ UNCHANGED <<url, uiError>>
    /\ UNCHANGED chartVars

\* generateChart rejects: the catch and the finally block of that call.
ScanReject ==
    /\ \E k \in 1..Len(scans) :
          /\ scans[k].state = "pending"
          /\ scans' = [scans EXCEPT ![k].state = "rejected"]
    /\ \E msg \in ChartErrors : uiError' = msg
    /\ loading' = FALSE
    /\ UNCHANGED url
    /\ UNCHANGED chartVars

UINext ==
    \/ ChangeURL
    \/ ScanClick
    \/ ScanResolve
    \/ ScanReject

UISpec == Init /\ [][UINext]_vars


(***************************************************************************)
(* Vocabulary of the properties.                                           *)
(***************************************************************************)
Entries == {log[k] : k \in 1..Len(log)}

\* The entries of the rows that have a <td>, whose first cell was read.
CellEntries == {e \in Entries : e.cell = 1}

\* The row an entry is about, and the text of the cell read from it.
RowOf(e) == tables[e.t + 1][e.i + 1]
TextRead(e) == RowOf(e)[e.cell]

FeetOnly(f) == ImperialText(f, <<>>, <<>>, <<" ">>)
FeetInches(f, inch) == ImperialText(f, inch, <<"i", "n">>, <<" ">>)

HeightColumn(vals) == [header |-> "Height", values |-> vals]

RECURSIVE RowValues(_, _)
\* The values of the data rows of rows up to row index n, in row order.
RowValues(rows, n) ==
    IF n < 1 THEN <<>>
    ELSE RowValues(rows, n - 1) \o RowBody(rows[n + 1]).pushed

TableValues(rows) == RowValues(rows, Len(rows) - 1)

RECURSIVE ColumnsOf(_, _)
\* One column for each of the first n tables that has a value, in order.
ColumnsOf(tabs, n) ==
    IF n = 0 THEN <<>>
    ELSE ColumnsOf(tabs, n - 1)
           \o (IF TableValues(tabs[n]) # <<>>
               THEN <<HeightColumn(TableValues(tabs[n]))>> ELSE <<>>)

\* getTables threw on the answer the fetch came back with.
GetTablesFailed ==
    \/ response.status = "rejected"
    \/ response.status = "json" /\ ~response.text
    \/ response.status = "json" /\ response.text /\ response.doc = <<>>

Cause ==
    IF response.status = "rejected" THEN FetchRejected
    ELSE IF ~response.text THEN NoContent ELSE NoTable

(***************************************************************************)
(* C1.  A cell "<f> ft", without inches and without "in", is parsed to     *)
(* f * 0.3048; and for a first table without a parsable cell and a second  *)
(* table whose only data row is "5 ft", getColumns returns exactly one     *)
(* column, of the single value 1.524.                                      *)
(***************************************************************************)
FeetOnlyCases ==
    {<<FeetOnly(f), DigitsToNat(f) * 3048>> : f \in DigitRuns \cup {<<"5">>}}

C1_FeetOnly ==
    /\ \A e \in CellEntries : \A c \in FeetOnlyCases :
          TextRead(e) = c[1] => e.pushed = <<c[2]>>
    /\ pc = "columns" /\ tables = Example3
          => column = <<HeightColumn(<<15240>>)>>

(***************************************************************************)
(* C2.  A cell "<f> ft <i> in" contributes exactly f * 0.3048 + i * 0.0254 *)
(* metres, and a cell "<f> ft in" contributes f * 0.3048.                  *)
(***************************************************************************)
\* The texts "<f> ft <i> in" and "<f> ft in", each with f * 0.3048 + i * 0.0254.
FeetInchesCases ==
    {<<FeetInches(f, inch), DigitsToNat(f) * 3048 + DigitsToNat(inch) * 254>> :
        f \in DigitRuns \cup {<<"6">>}, inch \in DigitRuns \cup {<<"1">>, <<>>}}

C2_FeetInches ==
    \A e \in CellEntries : \A c \in FeetInchesCases :
        TextRead(e) = c[1] => e.pushed = <<c[2]>>

C2_Witness ==
    \E e \in CellEntries :
        /\ TextRead(e) = FeetInches(<<"5", "0">>, <<"0", "5">>)
        /\ e.pushed = <<50 * 3048 + 5 * 254>>

(***************************************************************************)
(* C3.  Whenever the metric pattern matches the text of a cell, the value  *)
(* of the row is the one of the metric branch and the imperial pattern is  *)
(* not run, even if the text also holds a feet and inches measurement; and *)
(* no row contributes more than one value.                                 *)
(***************************************************************************)
C3_MetricFirst ==
    /\ \A e \in CellEntries :
          LET meterValue == METRES_REGEX(Trim(TextRead(e)))
          IN  meterValue.found
                => /\ e.regexes = {"METRES_REGEX"}
                   /\ e.pushed = MetresBranch(meterValue)
                   /\ Len(e.pushed) = 1
    /\ \A e \in Entries : Len(e.pushed) <= 1

C3_Witness ==
    \E e \in CellEntries :
        /\ TextRead(e) = T_6ft1in \o <<" ">> \o T_2_m
        /\ FEET_REGEX(Trim(TextRead(e))).found
        /\ e.regexes = {"METRES_REGEX"}
        /\ e.pushed = <<2 * Scale>>

(***************************************************************************)
(* C4.  "<a>.<b> m" and "<a>,<b> m" are parsed to the same value.          *)
(***************************************************************************)
\* The texts "<a>.<b> m", and such a text written with a comma.
DotTexts ==
    {MetricText(a, <<".">>, b, <<" ">>) : a \in DigitRuns, b \in DigitRuns}

WithComma(text) ==
    [p \in 1..Len(text) |-> IF text[p] = "." THEN "," ELSE text[p]]

C4_CommaIsDot ==
    \A d \in CellEntries, c \in CellEntries :
        TextRead(d) \in DotTexts /\ TextRead(c) = WithComma(TextRead(d))
            => d.pushed = c.pushed /\ Len(d.pushed) = 1

C4_Witness ==
    \E d \in CellEntries, c \in CellEntries :
        /\ TextRead(d) = <<"5", ".", "0", "5", " ", "m">>
        /\ TextRead(c) = <<"5", ",", "0", "5", " ", "m">>
        /\ d.pushed = <<50500>>
        /\ c.pushed = <<50500>>

(***************************************************************************)
(* C5.  The row loop never visits row index 0, contributes nothing for a   *)
(* row without cells or whose first cell matches neither pattern, and      *)
(* reads only the first cell of a row; a table with fewer than two rows    *)
(* yields no value and no error.                                           *)
(***************************************************************************)
Parsable(text) ==
    METRES_REGEX(Trim(text)).found \/ FEET_REGEX(Trim(text)).found

C5_Rows ==
    /\ \A e \in Entries :
          /\ e.i >= 1
          /\ e.i < Len(tables[e.t + 1])
          /\ e.cell = (IF Len(RowOf(e)) = 0 THEN 0 ELSE 1)
          /\ Len(RowOf(e)) = 0 => e.pushed = <<>>
          /\ Len(RowOf(e)) > 0 /\ ~Parsable(RowOf(e)[1]) => e.pushed = <<>>
    /\ pc = "rows" /\ Len(tables[ti + 1]) < 2
          => values = <<>> /\ error = <<>>

\* The claim as stated: the values are at most (row count - 1).
C5_AtMostRowsMinusOne ==
    /\ C5_Rows
    /\ pc = "rows" /\ i >= Len(tables[ti + 1])
          => Len(values) <= Len(tables[ti + 1]) - 1

\* The claim as amended: at most (row count - 1) values for a table that has
\* a row, and none for a table that has no row.
C5_ScanSkipsHeader ==
    /\ C5_Rows
    /\ pc = "rows" => Len(values) <= i - 1
    /\ pc = "rows" /\ i >= Len(tables[ti + 1])
          => Len(values) <= (IF Len(tables[ti + 1]) = 0 THEN 0
                             ELSE Len(tables[ti + 1]) - 1)

C5_Witness ==
    /\ pc = "rows"
    /\ tables[ti + 1] = << <<T_1_85_m>>, <<T_n_a, T_2_m>>, <<>> >>
    /\ i = 3
    /\ values = <<>>

(***************************************************************************)
(* C6.  The values of a column are in the order of the rows they come      *)
(* from; rows "Header", "1.85 m", "n/a", "6 ft 1 in" give the column       *)
(* Height with the values 1.85, 1.8542.                                    *)
(***************************************************************************)
C6_RowOrder ==
    /\ pc = "rows" => values = RowValues(tables[ti + 1], i - 1)
    /\ \A j \in 1..Len(log), k \in 1..Len(log) :
          j < k /\ log[j].t = log[k].t => log[j].i < log[k].i
    /\ pc = "columns" /\ tables = Example1
          => column = <<HeightColumn(<<18500, 18542>>)>>

C6_Witness ==
    /\ pc = "columns"
    /\ tables = Example1
    /\ column = <<HeightColumn(<<18500, 18542>>)>>

(***************************************************************************)
(* C7.  Every column getColumns collects has the header "Height" and at    *)
(* least one value, and a table whose scan gave no value adds no column.   *)
(***************************************************************************)
C7_NoEmptyColumn ==
    /\ [](\A k \in 1..Len(column) :
            column[k].header = "Height" /\ Len(column[k].values) >= 1)
    /\ [][pc = "rows" /\ pc' = "forEach" /\ values = <<>>
            => column' = column]_vars

C7_Witness ==
    /\ pc = "columns"
    /\ Len(tables) = 2
    /\ TableValues(tables[1]) = <<>>
    /\ Len(column) = 1

(***************************************************************************)
(* C8.  getColumns goes through the tables in their order and collects one *)
(* column for each table that has a parsed value, in the same order: the   *)
(* number of columns is the number of tables with a parsable data row.     *)
(***************************************************************************)
HasParsableRow(rows) ==
    \E r \in 2..Len(rows) : RowBody(rows[r]).pushed # <<>>

C8_TableOrder ==
    /\ pc \in {"forEach", "columns"}
          => /\ column = ColumnsOf(tables, ti)
             /\ Len(column) =
                  Cardinality({t \in 1..ti : HasParsableRow(tables[t])})
    /\ pc \in {"columns", "saveChart", "done"} => ti = Len(tables)
    /\ \A j \in 1..Len(log), k \in 1..Len(log) :
          j < k => log[j].t <= log[k].t

C8_Witness ==
    /\ pc = "columns"
    /\ tables = << << <<>>, <<T_1_85_m>> >>, << <<>>, <<T_6ft1in>> >> >>
    /\ column = <<HeightColumn(<<18500>>), HeightColumn(<<18542>>)>>

(***************************************************************************)
(* C9.  When there are tables and none of them yields a value,             *)
(* generateChart fails with "No numeric columns found" and never goes on   *)
(* to saveChart; it never resolves with an empty sequence of columns.      *)
(***************************************************************************)
\* getColumns is over, there are tables, and none of them yields a value.
NoMeasurements ==
    /\ pc \in {"columns", "saveChart", "done", "catch", "failed"}
    /\ tables # <<>>
    /\ \A t \in 1..Len(tables) : TableValues(tables[t]) = <<>>

C9_NoMeasurements ==
    /\ NoMeasurements
          => /\ pc \notin {"saveChart", "done"}
             /\ pc = "columns" => ENABLED NoColumnsThrow /\ ~ENABLED SaveChartCall
             /\ pc = "catch" => error = <<NoColumns>>
             /\ pc = "failed"
                  => error = <<"Failed to generate chart: ", NoColumns>>
    /\ pc \in {"saveChart", "done"} => column # <<>>

C9_Witness ==
    /\ pc = "failed"
    /\ tables = Example2
    /\ error = <<"Failed to generate chart: ", NoColumns>>

(***************************************************************************)
(* C10.  When the fetch fails or the page has no table, getTables throws   *)
(* before any extraction: generateChart fails once, with a message that    *)
(* holds the message of the cause, never with "No numeric columns found",  *)
(* and no extraction runs on an empty sequence of tables.                  *)
(***************************************************************************)
C10_GetTablesFailure ==
    /\ GetTablesFailed
          => /\ pc \in {"catch", "failed"}
             /\ tables = <<>> /\ column = <<>> /\ log = <<>>
             /\ error[Len(error)] = Cause
             /\ \A k \in 1..Len(error) : error[k] # NoColumns
             /\ pc = "failed"
                  => error = <<"Failed to generate chart: ",
                               "Failed to get tables: ", Cause>>
    /\ pc \in {"forEach", "rows", "columns", "saveChart", "done"}
          => tables # <<>>

C10_Witness ==
    /\ pc = "failed"
    /\ response = [status |-> "json", text |-> TRUE, doc |-> <<>>]
    /\ error = <<"Failed to generate chart: ", "Failed to get tables: ", NoTable>>


(***************************************************************************)
(* C11.  Every value extractColumnData puts in a column is a finite,       *)
(* non-negative number, never NaN, never Infinity, whatever the text of    *)
(* the cell: a parse that would give anything else contributes no value.   *)
(***************************************************************************)
C11_FiniteNonNegative ==
    \A e \in Entries : \A k \in 1..Len(e.pushed) :
        /\ e.pushed[k] # NaN
        /\ e.pushed[k] # Infinity
        /\ e.pushed[k] >= 0


(***************************************************************************)
(* C12.  When the metric pattern matches a cell but the captured text does *)
(* not convert to a finite number, the imperial pattern is tried on the    *)
(* same cell and decides what the row contributes.                         *)
(***************************************************************************)
C12_FallThrough ==
    \A e \in CellEntries :
        LET value      == Trim(TextRead(e))
            meterValue == METRES_REGEX(value)
            numValue   == ParseFloat(Replace(meterValue.g1, ",", "."))
        IN  meterValue.found /\ numValue \in {NaN, Infinity}
              => /\ "FEET_REGEX" \in e.regexes
                 /\ e.pushed = FeetBranch(FEET_REGEX(value))


(***************************************************************************)
(* C13.  In the form, loading is true whenever an onScan call is still in  *)
(* flight: a second click on Scan while a first scan runs cannot leave     *)
(* loading false with a scan pending.                                      *)
(***************************************************************************)
ScanInFlight == \E k \in 1..Len(scans) : scans[k].state = "pending"

C13_LoadingWhileInFlight == ScanInFlight => loading

=============================================================================
